---- MODULE Spec2Model ----
(***************************************************************************)
(* A model of the S3 file-upload backend: the HTTP handlers of             *)
(* src/src/routes, the orchestration of src/src/services/file.service.ts   *)
(* and the object-store wrapper of src/src/services/s3.service.ts, over an *)
(* abstract object store.                                                  *)
(*                                                                         *)
(* Strings the code inspects character by character (filenames, keys,      *)
(* header values) are sequences of one-character strings; an optional      *)
(* value is a sequence of length 0 (absent) or 1 (present).                *)
(***************************************************************************)
EXTENDS Integers, Sequences, FiniteSets, TLC

\* ------------------------------------------------------------------ bounds

\* Date.now() ranges over 1..MaxClock (milliseconds).
MaxClock == 2
\* At most MaxIssued upload URLs are issued in one behaviour.
MaxIssued == 2

\* ----------------------------------------------------------------- strings

None == << >>
Some(v) == << v >>
IsSome(o) == Len(o) > 0
Get(o) == o[1]

Lower == {"a","b","c","d","e","f","g","h","i","j","k","l","m",
          "n","o","p","q","r","s","t","u","v","w","x","y","z"}
Upper == {"A","B","C","D","E","F","G","H","I","J","K","L","M",
          "N","O","P","Q","R","S","T","U","V","W","X","Y","Z"}
Digit == {"0","1","2","3","4","5","6","7","8","9"}

\* The characters /[a-zA-Z0-9._-]/ lets through.
SafeChars == Lower \cup Upper \cup Digit \cup {".", "_", "-"}

DigitChar(d) == <<"0","1","2","3","4","5","6","7","8","9">>[d + 1]

\* `${n}` for a non-negative integer n.
RECURSIVE NumToStr(_)
NumToStr(n) == IF n < 10 THEN << DigitChar(n) >>
               ELSE NumToStr(n \div 10) \o << DigitChar(n % 10) >>

\* s.startsWith(p)
StartsWith(s, p) == /\ Len(p) <= Len(s)
                    /\ SubSeq(s, 1, Len(p)) = p

\* The first index at or after i where p occurs in s, 0 when there is none.
RECURSIVE IndexOfFrom(_, _, _)
IndexOfFrom(s, p, i) ==
  IF i + Len(p) - 1 > Len(s) THEN 0
  ELSE IF SubSeq(s, i, i + Len(p) - 1) = p THEN i
  ELSE IndexOfFrom(s, p, i + 1)

\* s.replace(p, r) with a string pattern: the first occurrence only.
ReplaceFirst(s, p, r) ==
  LET i == IndexOfFrom(s, p, 1)
  IN IF i = 0 THEN s
     ELSE SubSeq(s, 1, i - 1) \o r \o SubSeq(s, i + Len(p), Len(s))

\* s.split('-')
RECURSIVE SplitDash(_)
SplitDash(s) ==
  LET i == IndexOfFrom(s, <<"-">>, 1)
  IN IF i = 0 THEN << s >>
     ELSE << SubSeq(s, 1, i - 1) >> \o SplitDash(SubSeq(s, i + 1, Len(s)))

\* parts.join('-')
RECURSIVE JoinDash(_)
JoinDash(parts) ==
  IF Len(parts) = 0 THEN << >>
  ELSE IF Len(parts) = 1 THEN parts[1]
  ELSE parts[1] \o <<"-">> \o JoinDash(Tail(parts))

\* parts.slice(n)
Slice(parts, n) == SubSeq(parts, n + 1, Len(parts))

\* Code-unit order of the characters the model's keys are made of.
CharOrder == <<"-", ".", "/", "0", "1", "2", "3", "4", "5", "6", "7", "8", "9",
               "_", "a", "b", "c", "d", "e", "f", "g", "h", "i", "j", "k", "l",
               "m", "n", "o", "p", "q", "r", "s", "t", "u", "v", "w", "x", "y", "z">>
CharRank(c) == CHOOSE i \in 1..Len(CharOrder) : CharOrder[i] = c

\* s sorts strictly before t, byte by byte.
RECURSIVE StrLess(_, _)
StrLess(s, t) ==
  IF Len(t) = 0 THEN FALSE
  ELSE IF Len(s) = 0 THEN TRUE
  ELSE IF s[1] = t[1] THEN StrLess(Tail(s), Tail(t))
  ELSE CharRank(s[1]) < CharRank(t[1])

\* The strings of set S in ascending order.
RECURSIVE SortStrs(_)
SortStrs(S) ==
  IF S = {} THEN << >>
  ELSE LET m == CHOOSE x \in S : \A y \in S \ {x} : StrLess(x, y)
       IN << m >> \o SortStrs(S \ {m})

\* ------------------------------------------------------------------ config

\* MAX_FILE_SIZE_MB's default.
MaxFileSizeMB == 100
maxFileSizeBytes == MaxFileSizeMB * 1024 * 1024

\* config.upload.allAllowedTypes: the four default lists, concatenated.
allAllowedTypes ==
  {"image/jpeg", "image/png", "image/gif", "image/webp", "image/svg+xml"} \cup
  {"video/mp4", "video/webm", "video/quicktime", "video/x-msvideo"} \cup
  {"application/pdf", "application/msword",
   "application/vnd.openxmlformats-officedocument.wordprocessingml.document",
   "text/plain"} \cup
  {"audio/mpeg", "audio/wav", "audio/ogg", "audio/webm"}

\* config.aws.prefix: S3_PREFIX's default, which ends with '/'.
KeyPrefix == <<"u","p","l","o","a","d","s","/">>

\* ------------------------------------------------------------------ errors

\* The error classes of utils/errors.ts, by name, with their HTTP status.
StatusCode(name) ==
  CASE name = "ValidationError" -> 400
    [] name = "UnauthorizedError" -> 401
    [] name = "ForbiddenError" -> 403
    [] name = "NotFoundError" -> 404
    [] OTHER -> 500

\* What a service call or handler step ends with: a value, or a thrown error.
Ok(v) == [ok |-> TRUE, val |-> v, err |-> "", msg |-> ""]
Throw(name, msg) == [ok |-> FALSE, val |-> None, err |-> name, msg |-> msg]

\* The texts of the messages the code raises, up to their interpolated values.
MsgNotAllowed == "Content type is not allowed"
MsgExceedsMaximum == "File size exceeds maximum allowed size"
MsgValidationFailed == "Validation failed"
MsgNotFound == "File with key not found"
MsgUnauthorized == "Missing or invalid authorization header"
MsgBadToken == "Invalid or expired token"

\* --------------------------------------------------------------- validator

\* A type check that turns away only the missing type.
validateMimeTypeNonEmpty(contentType) ==
  IF contentType = "" THEN Throw("ValidationError", MsgNotAllowed) ELSE Ok(None)

\* A size check that turns away the ceiling itself.
validateFileSizeBelow(size) ==
  IF IsSome(size) /\ Get(size) >= maxFileSizeBytes
  THEN Throw("ValidationError", MsgExceedsMaximum)
  ELSE Ok(None)

\* FileService.validateMimeType: the error it throws, if any.
validateMimeType(contentType) ==
  IF contentType \notin allAllowedTypes
  THEN Throw("ValidationError", MsgNotAllowed)
  ELSE Ok(None)

\* FileService.validateFileSize: size is None (undefined) or Some(n).
validateFileSize(size) ==
  IF IsSome(size) /\ Get(size) > maxFileSizeBytes
  THEN Throw("ValidationError", MsgExceedsMaximum)
  ELSE Ok(None)

\* ----------------------------------------------------------- key generator

\* A sanitizer that replaces the path separators only.
SanitizeSeparators(filename) ==
  [i \in 1..Len(filename) |->
     IF filename[i] \in {"/", "\\"} THEN "_" ELSE filename[i]]

\* filename.replace(/[^a-zA-Z0-9._-]/g, '_')
Sanitize(filename) ==
  [i \in 1..Len(filename) |->
     IF filename[i] \in SafeChars THEN filename[i] ELSE "_"]

\* generateFileId: `${Date.now()}-${random}`, random being
\* Math.random().toString(36).substring(2, 11).
generateFileId(t, random) == NumToStr(t) \o <<"-">> \o random

\* A key made of the timestamp and the name alone.
generateSafeKeyNoId(filename, fileId, t) ==
  NumToStr(t) \o <<"-">> \o Sanitize(filename)

\* FileService.generateSafeKey at time t with the id given.
generateSafeKey(filename, fileId, t) ==
  NumToStr(t) \o <<"-">> \o fileId \o <<"-">> \o Sanitize(filename)

\* FileService.listFiles: the filename it reports for a key.
ExtractFilename(key) == JoinDash(Slice(SplitDash(key), 2))

\* ---------------------------------------------------------- metadata codec

\* FileMetadata (types/index.ts): every field optional.
NoMetadata == [userId |-> None, originalFilename |-> None, tags |-> None,
               isPublic |-> None, description |-> None]

\* The names of the metadata headers, as signed and as the store returns them.
MetaHeaderNames == {"x-amz-meta-user-id", "x-amz-meta-original-filename",
                    "x-amz-meta-tags", "x-amz-meta-is-public",
                    "x-amz-meta-description"}
MetaNames == {"user-id", "original-filename", "tags", "is-public", "description"}

\* encodeURIComponent leaves these unescaped.
UriUnreserved == Lower \cup Upper \cup Digit \cup
                 {"-", "_", ".", "!", "~", "*", "'", "(", ")"}

\* The escapes of the other characters of the model's strings (their UTF-8
\* bytes in hexadecimal).
UriEscapes == { <<" ", <<"%","2","0">> >>, <<"%", <<"%","2","5">> >>,
                <<"/", <<"%","2","F">> >>, <<"\"", <<"%","2","2">> >>,
                <<"\\", <<"%","5","C">> >>, <<",", <<"%","2","C">> >>,
                <<"[", <<"%","5","B">> >>, <<"]", <<"%","5","D">> >>,
                <<"U+00E9", <<"%","C","3","%","A","9">> >> }

UriEscapeOf(c) == (CHOOSE e \in UriEscapes : e[1] = c)[2]

RECURSIVE encodeURIComponent(_)
encodeURIComponent(s) ==
  IF Len(s) = 0 THEN << >>
  ELSE (IF s[1] \in UriUnreserved THEN << s[1] >> ELSE UriEscapeOf(s[1]))
       \o encodeURIComponent(Tail(s))

\* decodeURIComponent: Ok(string), or a URIError at a '%' no escape follows.
RECURSIVE decodeURIComponent(_)
decodeURIComponent(s) ==
  IF Len(s) = 0 THEN Ok(<< >>)
  ELSE IF s[1] # "%" THEN
    LET rest == decodeURIComponent(Tail(s))
    IN IF rest.ok THEN Ok(<< s[1] >> \o rest.val) ELSE rest
  ELSE IF \E e \in UriEscapes : StartsWith(s, e[2]) THEN
    LET e == CHOOSE x \in UriEscapes : StartsWith(s, x[2])
        rest == decodeURIComponent(SubSeq(s, Len(e[2]) + 1, Len(s)))
    IN IF rest.ok THEN Ok(<< e[1] >> \o rest.val) ELSE rest
  ELSE Throw("URIError", "URI malformed")

\* JSON.stringify of one string: quoted, with '"' and '\' escaped.
RECURSIVE JsonEscape(_)
JsonEscape(s) ==
  IF Len(s) = 0 THEN << >>
  ELSE (IF s[1] \in {"\"", "\\"} THEN << "\\", s[1] >> ELSE << s[1] >>)
       \o JsonEscape(Tail(s))

JsonString(s) == << "\"" >> \o JsonEscape(s) \o << "\"" >>

RECURSIVE JsonItems(_)
JsonItems(tags) ==
  IF Len(tags) = 0 THEN << >>
  ELSE IF Len(tags) = 1 THEN JsonString(tags[1])
  ELSE JsonString(tags[1]) \o << "," >> \o JsonItems(Tail(tags))

\* JSON.stringify(tags) for an array of strings.
JsonStringify(tags) == << "[" >> \o JsonItems(tags) \o << "]" >>

\* Reads a JSON string literal of s starting at the opening quote at i:
\* [ok, val, next], next being the index after the closing quote.
RECURSIVE JsonReadChars(_, _, _)
JsonReadChars(s, i, acc) ==
  IF i > Len(s) THEN [ok |-> FALSE, val |-> << >>, next |-> i]
  ELSE IF s[i] = "\"" THEN [ok |-> TRUE, val |-> acc, next |-> i + 1]
  ELSE IF s[i] = "\\" THEN
    IF i + 1 <= Len(s) /\ s[i + 1] \in {"\"", "\\", "/"}
    THEN JsonReadChars(s, i + 2, Append(acc, s[i + 1]))
    ELSE [ok |-> FALSE, val |-> << >>, next |-> i]
  ELSE JsonReadChars(s, i + 1, Append(acc, s[i]))

\* Reads the elements of a JSON array of strings from index i, after '[' or
\* ',': [ok, val] with val the strings read up to the closing ']'.
RECURSIVE JsonReadItems(_, _, _)
JsonReadItems(s, i, acc) ==
  IF i > Len(s) \/ s[i] # "\"" THEN [ok |-> FALSE, val |-> << >>]
  ELSE LET str == JsonReadChars(s, i + 1, << >>)
       IN IF ~str.ok \/ str.next > Len(s) THEN [ok |-> FALSE, val |-> << >>]
          ELSE IF s[str.next] = "]" THEN
            [ok |-> str.next = Len(s), val |-> Append(acc, str.val)]
          ELSE IF s[str.next] = "," THEN
            JsonReadItems(s, str.next + 1, Append(acc, str.val))
          ELSE [ok |-> FALSE, val |-> << >>]

\* JSON.parse of a header value holding an array of strings: Ok(array), or
\* the SyntaxError JSON.parse throws.
JsonParse(s) ==
  IF Len(s) < 2 \/ s[1] # "[" THEN Throw("SyntaxError", "Unexpected token")
  ELSE IF s = << "[", "]" >> THEN Ok(<< >>)
  ELSE LET r == JsonReadItems(s, 2, << >>)
       IN IF r.ok THEN Ok(r.val) ELSE Throw("SyntaxError", "Unexpected token")

\* isPublic.toString()
BoolToStr(b) == IF b THEN <<"t","r","u","e">> ELSE <<"f","a","l","s","e">>

\* S3Service.generatePresignedUploadUrl, lines 48-60: the metadata headers
\* built for the metadata argument (None when the argument is undefined).
\* A JavaScript string is truthy when it is not empty, an array always.
metadataHeaders(metadata) ==
  LET m == IF IsSome(metadata) THEN Get(metadata) ELSE NoMetadata
  IN [n \in MetaHeaderNames |->
       CASE n = "x-amz-meta-user-id" ->
              IF IsSome(m.userId) /\ Get(m.userId) # << >>
              THEN Some(Get(m.userId)) ELSE None
         [] n = "x-amz-meta-original-filename" ->
              IF IsSome(m.originalFilename) /\ Get(m.originalFilename) # << >>
              THEN Some(encodeURIComponent(Get(m.originalFilename))) ELSE None
         [] n = "x-amz-meta-tags" ->
              IF IsSome(m.tags) THEN Some(JsonStringify(Get(m.tags))) ELSE None
         [] n = "x-amz-meta-is-public" ->
              IF IsSome(m.isPublic) THEN Some(BoolToStr(Get(m.isPublic))) ELSE None
         [] n = "x-amz-meta-description" ->
              IF IsSome(m.description) /\ Get(m.description) # << >>
              THEN Some(encodeURIComponent(Get(m.description))) ELSE None]

\* The user metadata the store keeps for an object PUT with the headers h:
\* each x-amz-meta-<name> header under <name>.
StoredMetadata(h) ==
  [n \in MetaNames |->
     CASE n = "user-id" -> h["x-amz-meta-user-id"]
       [] n = "original-filename" -> h["x-amz-meta-original-filename"]
       [] n = "tags" -> h["x-amz-meta-tags"]
       [] n = "is-public" -> h["x-amz-meta-is-public"]
       [] n = "description" -> h["x-amz-meta-description"]]

Truthy(h) == IsSome(h) /\ Get(h) # << >>

\* S3Service.getFileMetadata, lines 160-177: the metadata decoded from a HEAD
\* response's Metadata map md. Ok(None) is `metadata: undefined` (no field
\* was set); a throw of decodeURIComponent or JSON.parse is passed on.
decodeMetadata(md) ==
  LET fn == IF Truthy(md["original-filename"])
            THEN decodeURIComponent(Get(md["original-filename"])) ELSE Ok(<< >>)
      tg == IF Truthy(md["tags"]) THEN JsonParse(Get(md["tags"])) ELSE Ok(<< >>)
      ds == IF Truthy(md["description"])
            THEN decodeURIComponent(Get(md["description"])) ELSE Ok(<< >>)
      m == [userId |-> IF Truthy(md["user-id"]) THEN Some(Get(md["user-id"])) ELSE None,
            originalFilename |->
              IF Truthy(md["original-filename"]) THEN Some(fn.val) ELSE None,
            tags |-> IF Truthy(md["tags"]) THEN Some(tg.val) ELSE None,
            isPublic |-> IF Truthy(md["is-public"])
                         THEN Some(Get(md["is-public"]) = <<"t","r","u","e">>)
                         ELSE None,
            description |-> IF Truthy(md["description"]) THEN Some(ds.val) ELSE None]
  IN IF ~fn.ok THEN fn
     ELSE IF ~tg.ok THEN tg
     ELSE IF ~ds.ok THEN ds
     ELSE IF m = NoMetadata THEN Ok(None) ELSE Ok(Some(m))

\* ------------------------------------------------------------ object store

\* PRESIGN_EXPIRY_SECONDS and PRESIGN_GET_EXPIRY_SECONDS: their defaults.
uploadExpirySeconds == 900
getExpirySeconds == 3600

\* How the object store (or the signer) answers one call: it serves it, or
\* fails for a reason of its own (network, credentials, throttling).
StoreAnswers == {"ok", "error"}

\* What a service call ends with: its result, the calls it made to the store
\* or the signer, and the store after it.
Outcome(res, calls, st) == [res |-> res, calls |-> calls, store |-> st]

\* The signed URL getSignedUrl returns for a command at time t: the command,
\* and the time from which the store refuses it.
SignedUrl(method, command, expiresIn, t) ==
  [method |-> method, command |-> command, expires |-> t + expiresIn * 1000]

\* The keys of store st that start with searchPrefix, in the store's order.
Listing(st, searchPrefix) ==
  SortStrs({k \in DOMAIN st : StartsWith(k, searchPrefix)})

\* The first maxKeys of the keys all, with their objects in st, and whether
\* more follow.
FirstKeys(st, all, maxKeys) ==
  LET n == IF maxKeys < Len(all) THEN maxKeys ELSE Len(all)
  IN [Contents |-> [i \in 1..n |->
                      [Key |-> all[i], Size |-> st[all[i]].size,
                       LastModified |-> st[all[i]].lastModified]],
      IsTruncated |-> n < Len(all)]

\* The store's answer to ListObjectsV2 without a continuation token: at most
\* MaxKeys keys from the start of the listing, and whether more follow.
ListObjectsV2(st, searchPrefix, maxKeys) ==
  FirstKeys(st, Listing(st, searchPrefix), maxKeys)

\* -------------------------------------------------------------- S3Service

\* A signer of upload URLs that takes its expiry window from the setting of
\* the GET URLs.
s3GeneratePresignedUploadUrlGetExpiry(key, contentType, metadata, maxSizeBytes, ans, tSign, tDate) ==
  LET fullKey == KeyPrefix \o key
      expiresIn == getExpirySeconds
      command == [Key |-> fullKey, ContentType |-> contentType,
                  headers |-> metadataHeaders(metadata),
                  ContentLength |-> IF IsSome(maxSizeBytes) /\ Get(maxSizeBytes) # 0
                                    THEN maxSizeBytes ELSE None]
      call == [api |-> "getSignedUrl", method |-> "PUT", key |-> fullKey,
               command |-> command, expiresIn |-> expiresIn]
  IN IF ans = "ok"
     THEN [res |-> Ok([url |-> SignedUrl("PUT", command, expiresIn, tSign),
                       expiresAt |-> tDate + expiresIn * 1000]),
           calls |-> << call >>]
     ELSE [res |-> Throw("S3Error", "Failed to generate presigned upload URL"),
           calls |-> << call >>]

\* S3Service.generatePresignedUploadUrl. tSign is the time the signer signs
\* at, tDate the time `new Date()` reads after it; maxSizeBytes is None or
\* Some(n), and 0 is falsy in `maxSizeBytes && {...}`.
s3GeneratePresignedUploadUrl(key, contentType, metadata, maxSizeBytes, ans, tSign, tDate) ==
  LET fullKey == KeyPrefix \o key
      expiresIn == uploadExpirySeconds
      command == [Key |-> fullKey, ContentType |-> contentType,
                  headers |-> metadataHeaders(metadata),
                  ContentLength |-> IF IsSome(maxSizeBytes) /\ Get(maxSizeBytes) # 0
                                    THEN maxSizeBytes ELSE None]
      call == [api |-> "getSignedUrl", method |-> "PUT", key |-> fullKey,
               command |-> command, expiresIn |-> expiresIn]
  IN IF ans = "ok"
     THEN [res |-> Ok([url |-> SignedUrl("PUT", command, expiresIn, tSign),
                       expiresAt |-> tDate + expiresIn * 1000]),
           calls |-> << call >>]
     ELSE [res |-> Throw("S3Error", "Failed to generate presigned upload URL"),
           calls |-> << call >>]

\* A signer of GET URLs whose failure reaches the caller as the provider
\* threw it.
s3GeneratePresignedGetUrlRaw(key, ans, tSign, tDate) ==
  LET fullKey == KeyPrefix \o key
      expiresIn == getExpirySeconds
      command == [Key |-> fullKey]
      call == [api |-> "getSignedUrl", method |-> "GET", key |-> fullKey,
               command |-> command, expiresIn |-> expiresIn]
  IN IF ans = "ok"
     THEN [res |-> Ok([url |-> SignedUrl("GET", command, expiresIn, tSign),
                       expiresAt |-> tDate + expiresIn * 1000]),
           calls |-> << call >>]
     ELSE [res |-> Throw("CredentialsProviderError", "Could not load credentials"),
           calls |-> << call >>]

\* S3Service.generatePresignedGetUrl
s3GeneratePresignedGetUrl(key, ans, tSign, tDate) ==
  LET fullKey == KeyPrefix \o key
      expiresIn == getExpirySeconds
      command == [Key |-> fullKey]
      call == [api |-> "getSignedUrl", method |-> "GET", key |-> fullKey,
               command |-> command, expiresIn |-> expiresIn]
  IN IF ans = "ok"
     THEN [res |-> Ok([url |-> SignedUrl("GET", command, expiresIn, tSign),
                       expiresAt |-> tDate + expiresIn * 1000]),
           calls |-> << call >>]
     ELSE [res |-> Throw("S3Error", "Failed to generate presigned GET URL"),
           calls |-> << call >>]

\* A delete that removes every object whose key starts with the key given.
s3DeleteFileByPrefix(st, key, ans) ==
  LET fullKey == KeyPrefix \o key
      call == [api |-> "DeleteObject", key |-> fullKey]
  IN IF ans = "ok"
     THEN Outcome(Ok(None), << call >>,
                  [k \in { x \in DOMAIN st : ~StartsWith(x, SubSeq(fullKey, 1, Len(KeyPrefix) + 1)) }
                     |-> st[k]])
     ELSE Outcome(Throw("S3Error", "Failed to delete file from S3"), << call >>, st)

\* S3Service.deleteFile: DeleteObject succeeds whether or not the key exists.
s3DeleteFile(st, key, ans) ==
  LET fullKey == KeyPrefix \o key
      call == [api |-> "DeleteObject", key |-> fullKey]
  IN IF ans = "ok"
     THEN Outcome(Ok(None), << call >>,
                  [k \in DOMAIN st \ {fullKey} |-> st[k]])
     ELSE Outcome(Throw("S3Error", "Failed to delete file from S3"), << call >>, st)

\* An existence check that answers with the object, its metadata left out,
\* when the metadata does not decode.
HeadResultDroppingMetadata(object, md) ==
  Ok([exists |-> TRUE, metadata |-> IF md.ok THEN md.val ELSE None,
      contentType |-> object.contentType, size |-> object.size,
      lastModified |-> object.lastModified])

\* S3Service.getFileMetadata, lines 152-178: what it returns for the object
\* HeadObject answered with, md being its decoded metadata; a throw while
\* decoding is caught and rethrown as an S3Error.
HeadResult(object, md) ==
  IF md.ok
  THEN Ok([exists |-> TRUE, metadata |-> md.val,
           contentType |-> object.contentType, size |-> object.size,
           lastModified |-> object.lastModified])
  ELSE Throw("S3Error", "Failed to get file metadata")

\* An existence check that takes every failure of HeadObject for "not found".
s3GetFileMetadataAllNotFound(st, key, ans) ==
  LET fullKey == KeyPrefix \o key
      call == [api |-> "HeadObject", key |-> fullKey]
  IN IF ans # "ok" \/ fullKey \notin DOMAIN st
     THEN [res |-> Ok([exists |-> FALSE, metadata |-> None]), calls |-> << call >>]
     ELSE [res |-> HeadResult(st[fullKey], decodeMetadata(st[fullKey].metadata)),
           calls |-> << call >>]

\* S3Service.getFileMetadata: HeadObject answers with the object, or with the
\* error named NotFound when there is none.
s3GetFileMetadata(st, key, ans) ==
  LET fullKey == KeyPrefix \o key
      call == [api |-> "HeadObject", key |-> fullKey]
      failed == Throw("S3Error", "Failed to get file metadata")
  IN IF ans # "ok" THEN [res |-> failed, calls |-> << call >>]
     ELSE IF fullKey \notin DOMAIN st
     THEN [res |-> Ok([exists |-> FALSE, metadata |-> None]), calls |-> << call >>]
     ELSE [res |-> HeadResult(st[fullKey], decodeMetadata(st[fullKey].metadata)),
           calls |-> << call >>]

\* A listing that reports the keys as the store holds them.
ListResultFullKeys(response) ==
  [files |-> [i \in 1..Len(response.Contents) |->
                [key |-> response.Contents[i].Key,
                 size |-> response.Contents[i].Size,
                 lastModified |-> response.Contents[i].LastModified]],
   isTruncated |-> response.IsTruncated]

\* S3Service.listFiles, lines 218-232: the files and the truncation flag it
\* returns for the store's response.
ListResult(response) ==
  [files |-> [i \in 1..Len(response.Contents) |->
                [key |-> ReplaceFirst(response.Contents[i].Key, KeyPrefix, << >>),
                 size |-> response.Contents[i].Size,
                 lastModified |-> response.Contents[i].LastModified]],
   isTruncated |-> response.IsTruncated]

\* A listing that asks the store for one key whatever limit it is given.
s3ListFilesOne(st, prefix, maxKeys, ans) ==
  LET searchPrefix == IF prefix # << >> THEN KeyPrefix \o prefix ELSE KeyPrefix
      call == [api |-> "ListObjectsV2", key |-> searchPrefix, maxKeys |-> 1]
  IN IF ans = "ok"
     THEN [res |-> Ok(ListResult(ListObjectsV2(st, searchPrefix, 1))),
           calls |-> << call >>]
     ELSE [res |-> Throw("S3Error", "Failed to list files"), calls |-> << call >>]

\* S3Service.listFiles with no continuation token; prefix is a string, and
\* the empty string is falsy.
s3ListFiles(st, prefix, maxKeys, ans) ==
  LET searchPrefix == IF prefix # << >> THEN KeyPrefix \o prefix ELSE KeyPrefix
      call == [api |-> "ListObjectsV2", key |-> searchPrefix, maxKeys |-> maxKeys]
  IN IF ans = "ok"
     THEN [res |-> Ok(ListResult(ListObjectsV2(st, searchPrefix, maxKeys))),
           calls |-> << call >>]
     ELSE [res |-> Throw("S3Error", "Failed to list files"), calls |-> << call >>]

\* ------------------------------------------------------------- FileService

Pad2(n) == << DigitChar(n \div 10), DigitChar(n % 10) >>
Pad3(n) == << DigitChar(n \div 100) >> \o Pad2(n % 100)

\* Date.prototype.toISOString for a time of January 1970, in milliseconds
\* since the epoch: 1970-01-DDTHH:MM:SS.mmmZ.
toISOString(ms) ==
  <<"1","9","7","0","-","0","1","-">> \o Pad2(ms \div 86400000 + 1) \o <<"T">>
  \o Pad2((ms \div 3600000) % 24) \o <<":">> \o Pad2((ms \div 60000) % 60)
  \o <<":">> \o Pad2((ms \div 1000) % 60) \o <<".">> \o Pad3(ms % 1000) \o <<"Z">>

\* { ...request.metadata, originalFilename: request.filename }
WithOriginalFilename(metadata, filename) ==
  [(IF IsSome(metadata) THEN Get(metadata) ELSE NoMetadata)
     EXCEPT !.originalFilename = Some(filename)]

\* FileService.generatePresignedUploadUrl, lines 66-86: the response built
\* from what the S3 service signed; its throw is passed on.
UploadUrlResponse(signed, key, fileId) ==
  IF ~signed.res.ok THEN signed
  ELSE [res |-> Ok([uploadUrl |-> signed.res.val.url, uploadMethod |-> "PUT",
                    key |-> key,
                    expiresAt |-> toISOString(signed.res.val.expiresAt),
                    fileId |-> fileId]),
        calls |-> signed.calls]

\* FileService.generatePresignedUploadUrl. random is what Math.random()
\* gives generateFileId, t1 and t2 what Date.now() reads in generateFileId
\* and in generateSafeKey.
fsGeneratePresignedUploadUrl(request, random, ans, t1, t2, tSign, tDate) ==
  LET mime == validateMimeType(request.contentType)
      size == validateFileSize(request.size)
      fileId == generateFileId(t1, random)
      key == generateSafeKey(request.filename, fileId, t2)
  IN IF ~mime.ok THEN [res |-> mime, calls |-> << >>]
     ELSE IF ~size.ok THEN [res |-> size, calls |-> << >>]
     ELSE UploadUrlResponse(
            s3GeneratePresignedUploadUrl(
              key, request.contentType,
              Some(WithOriginalFilename(request.metadata, request.filename)),
              request.size, ans, tSign, tDate),
            key, fileId)

\* An existence check that looks only at whether getFileMetadata threw.
IfHeadAnswered(metadata, following, st) ==
  IF ~metadata.res.ok THEN Outcome(metadata.res, metadata.calls, st)
  ELSE Outcome(following.res, metadata.calls \o following.calls, following.store)

\* The existence check that FileService.generatePresignedGetUrl, deleteFile
\* and handleUploadComplete open with: a throw of getFileMetadata is passed
\* on, `exists: false` throws NotFoundError, and only otherwise does the
\* operation go on to what follows the check. st is the store before it.
IfExists(metadata, following, st) ==
  IF ~metadata.res.ok THEN Outcome(metadata.res, metadata.calls, st)
  ELSE IF ~metadata.res.val.exists
  THEN Outcome(Throw("NotFoundError", MsgNotFound), metadata.calls, st)
  ELSE Outcome(following.res, metadata.calls \o following.calls, following.store)

\* FileService.generatePresignedGetUrl, lines 99-104: the response built from
\* what the S3 service signed.
GetUrlResponse(signed, st) ==
  IF ~signed.res.ok THEN Outcome(signed.res, signed.calls, st)
  ELSE Outcome(Ok([url |-> signed.res.val.url,
                   expiresAt |-> toISOString(signed.res.val.expiresAt)]),
               signed.calls, st)

\* FileService.generatePresignedGetUrl
fsGeneratePresignedGetUrl(st, key, ansHead, ansSign, tSign, tDate) ==
  IfExists(s3GetFileMetadata(st, key, ansHead),
           GetUrlResponse(s3GeneratePresignedGetUrl(key, ansSign, tSign, tDate), st),
           st)

\* x || d for an optional number x: undefined and 0 are falsy.
OrDefault(x, d) == IF IsSome(x) /\ Get(x) # 0 THEN Get(x) ELSE d
Max(a, b) == IF a >= b THEN a ELSE b
Min(a, b) == IF a <= b THEN a ELSE b

\* FileService.listFiles, lines 113-114: the page and the limit it uses.
ClampPage(page) == Max(1, OrDefault(page, 1))
ClampLimit(limit) == Min(100, Max(1, OrDefault(limit, 20)))

\* FileService.listFiles, lines 121-127: the record built for a listed file.
FileRecord(file) ==
  [key |-> file.key,
   filename |-> ExtractFilename(file.key),
   contentType |-> "application/octet-stream",
   size |-> file.size,
   uploadedAt |-> toISOString(file.lastModified)]

FileRecords(files) == [i \in 1..Len(files) |-> FileRecord(files[i])]

\* A pagination block that takes a full page for a sign that more follow.
PaginationFullPage(page, limit, files, isTruncated) ==
  [page |-> page, limit |-> limit, total |-> Len(files),
   hasMore |-> Len(files) = limit]

\* FileService.listFiles, lines 136-144: the pagination block.
Pagination(page, limit, files, isTruncated) ==
  [page |-> page, limit |-> limit, total |-> Len(files), hasMore |-> isTruncated]

\* FileService.listFiles, lines 121-144: the response built from what the
\* S3 service listed; its throw is passed on.
ListResponse(result, page, limit) ==
  IF ~result.res.ok THEN result
  ELSE [res |-> Ok([files |-> FileRecords(result.res.val.files),
                    pagination |-> Pagination(page, limit,
                                              FileRecords(result.res.val.files),
                                              result.res.val.isTruncated)]),
        calls |-> result.calls]

\* FileService.listFiles. query.userId and query.tags change nothing.
fsListFiles(st, query, ans) ==
  LET page == ClampPage(query.page)
      limit == ClampLimit(query.limit)
      prefix == IF IsSome(query.prefix) THEN Get(query.prefix) ELSE << >>
  IN ListResponse(s3ListFiles(st, prefix, limit, ans), page, limit)

\* FileService.deleteFile
fsDeleteFile(st, key, ansHead, ansDelete) ==
  IfExists(s3GetFileMetadata(st, key, ansHead), s3DeleteFile(st, key, ansDelete), st)

\* An outcome whose existence check is made a second time when the first
\* finds no object.
RetryIfMissing(outcome) ==
  IF ~outcome.res.ok /\ outcome.res.err = "NotFoundError"
  THEN Outcome(outcome.res, outcome.calls \o outcome.calls, outcome.store)
  ELSE outcome

\* A completion that looks again for an object it did not find.
fsHandleUploadCompleteRetry(st, request, ans) ==
  RetryIfMissing(
    IfExists(s3GetFileMetadata(st, request.key, ans),
             Outcome(Ok([success |-> TRUE, message |-> "Upload completed successfully",
                         key |-> request.key]),
                     << >>, st),
             st))

\* FileService.handleUploadComplete
fsHandleUploadComplete(st, request, ans) ==
  IfExists(s3GetFileMetadata(st, request.key, ans),
           Outcome(Ok([success |-> TRUE, message |-> "Upload completed successfully",
                       key |-> request.key]),
                   << >>, st),
           st)

\* --------------------------------------------------------------- HTTP layer

\* What the Authorization header carries: nothing, a token jwt.verify
\* rejects, or a token it accepts for the user named.
NoToken == [kind |-> "none", userId |-> << >>]
BadToken == [kind |-> "bad", userId |-> << >>]
TokenOf(userId) == [kind |-> "valid", userId |-> userId]

\* optionalAuthenticate: req.user's userId, if any.
optionalAuthenticate(token) ==
  IF token.kind = "valid" THEN Some(token.userId) ELSE None

\* An authenticate that lets a request without a header through, as
\* optionalAuthenticate does.
authenticateIfPresent(token) ==
  CASE token.kind = "bad" -> Throw("UnauthorizedError", MsgBadToken)
    [] token.kind = "none" -> Ok(None)
    [] OTHER -> Ok(Some(token.userId))

\* authenticate: req.user's userId, or the error passed to next().
authenticate(token) ==
  CASE token.kind = "none" -> Throw("UnauthorizedError", MsgUnauthorized)
    [] token.kind = "bad" -> Throw("UnauthorizedError", MsgBadToken)
    [] OTHER -> Ok(Some(token.userId))

\* presignUploadSchema, on a body whose size is an integer when present.
presignUploadSchema(body) ==
  /\ Len(body.filename) >= 1 /\ Len(body.filename) <= 255
  /\ body.contentType # ""
  /\ (IsSome(body.size) => Get(body.size) > 0)

\* presignGetSchema, deleteFileSchema and uploadCompleteSchema: key.min(1).
keySchema(key) == Len(key) >= 1

\* listFilesQuerySchema, on a query whose page and limit are integers when
\* present.
listFilesQuerySchema(query) ==
  /\ (IsSome(query.page) => Get(query.page) > 0)
  /\ (IsSome(query.limit) => Get(query.limit) > 0 /\ Get(query.limit) <= 100)

\* validate(schema): passes, or hands a ValidationError to next().
validate(schemaHolds) ==
  IF schemaHolds THEN Ok(None) ELSE Throw("ValidationError", MsgValidationFailed)

\* errorHandler, for an AppError: its name, message and status code.
errorHandler(error) ==
  [status |-> StatusCode(error.err), error |-> error.err,
   message |-> error.msg, body |-> None]

\* res.status(200).json(body), or next(error) into errorHandler.
Respond(res, body) ==
  IF res.ok THEN [status |-> 200, error |-> "", message |-> "", body |-> Some(body)]
  ELSE errorHandler(res)

\* A controller that hands the body on as it came.
WithBodyOnly(body, user) == body

\* UploadController.generatePresignedUrl, lines 17-25: the request handed to
\* the service.
WithUserId(body, user) ==
  IF /\ IsSome(user) /\ Get(user) # << >>
     /\ ~(IsSome(body.metadata) /\ Truthy(Get(body.metadata).userId))
  THEN [body EXCEPT !.metadata =
          Some([(IF IsSome(body.metadata) THEN Get(body.metadata) ELSE NoMetadata)
                  EXCEPT !.userId = user])]
  ELSE body

\* FileController.listFiles, lines 36-47: the query handed to the service.
ListQuery(query, user) ==
  IF IsSome(user) /\ Get(user) # << >> /\ ~Truthy(query.userId)
  THEN [query EXCEPT !.userId = user]
  ELSE query

\* ------------------------------------------------------------------ inputs

\* Filenames clients upload under: "a.j", and "b c", which holds a character
\* the key generator replaces.
Filenames == { <<"a",".","j">>, <<"b"," ","c">> }

\* Filenames the key generator is exercised with: "../x", "a\b", "b c",
\* "..", one with a non-ASCII character (the code unit U+00E9, one element
\* of the string) and one of safe characters only.
HostileFilenames ==
  { <<".",".","/","x">>, <<"a","\\","b">>, <<"b"," ","c">>, <<".",".">>,
    <<"U+00E9",".","j">>, <<"a","-","B","_","1",".","z">> }

\* What Math.random().toString(36).substring(2, 11) yields.
Randoms == { <<"k">>, <<"7","x">> }

User1 == <<"u","1">>
Tokens == { NoToken, BadToken, TokenOf(User1) }
OptionalTokens == { NoToken, TokenOf(User1) }

\* The upload requests of the object lifecycle: an allowed type and a
\* declared size.
LifecycleBodies ==
  { [filename |-> f, contentType |-> "image/jpeg", size |-> Some(1024),
     metadata |-> None] : f \in Filenames }

\* The upload requests the validators are exercised with.
SampleMetadata ==
  [NoMetadata EXCEPT !.userId = Some(<<"u","9">>), !.tags = Some(<< <<"t">> >>),
                     !.isPublic = Some(TRUE)]
UploadBodies ==
  { [filename |-> f, contentType |-> ct, size |-> sz, metadata |-> md] :
      f \in Filenames \cup { << >> },
      ct \in { "image/jpeg", "application/pdf", "application/x-msdownload", "" },
      sz \in { None, Some(0), Some(1024), Some(maxFileSizeBytes),
               Some(maxFileSizeBytes + 1), Some(200 * 1024 * 1024) },
      md \in { None, Some(SampleMetadata) } }

\* Upload requests of an allowed type under those filenames.
KeyBodies ==
  { [filename |-> f, contentType |-> "image/jpeg", size |-> None,
     metadata |-> None] : f \in HostileFilenames }

\* The metadata records the codec is exercised with: every field absent,
\* empty or set, with characters encodeURIComponent and JSON.stringify escape.
CodecMetadata ==
  { [userId |-> u, originalFilename |-> None, tags |-> t, isPublic |-> p,
     description |-> d] :
      u \in { None, Some(<< >>), Some(<<"u","9">>) },
      t \in { None, Some(<< >>), Some(<< <<"t">>, <<"a","\"","b">> >>) },
      p \in { None, Some(FALSE), Some(TRUE) },
      d \in { None, Some(<< >>), Some(<<"d"," ","%">>) } }

\* Upload requests of an allowed type that carry those records.
CodecBodies ==
  { [filename |-> <<"b"," ","c">>, contentType |-> "image/png", size |-> None,
     metadata |-> Some(m)] : m \in CodecMetadata }

\* A key no upload URL was issued for.
StrayKey == <<"n","o">>

\* The tags headers of objects another writer put under the prefix: two that
\* are not JSON ('[' and '["a'), and '["a"]'.
ForeignTags ==
  { << "[" >>, << "[", "\"", "a" >>, << "[", "\"", "a", "\"", "]" >> }

\* The page and limit values clients ask for, and the list prefixes.
Pages == { None, Some(0), Some(2) }
Limits == { None, Some(-1), Some(0), Some(1), Some(101) }
ListPrefixes == { None, Some(<<"2">>) }

\* The sizes of the bodies clients PUT: a small one, and one over the ceiling.
PutSizes == { 1024, maxFileSizeBytes + 1 }

\* ------------------------------------------------------------------- state

VARIABLES
  store,    \* the bucket: full key -> object
  now,      \* the clock Date.now() reads, in milliseconds
  issued,   \* the upload URLs issued so far, each with its key and filename
  nIssued,  \* the number of upload URLs issued so far
  req,      \* the request being answered, with the answers the store and the
            \* signer give to the calls made for it; op "none" between requests
  calls,    \* the calls made to the store and the signer while serving it
  resp      \* the response to it

vars == << store, now, issued, nIssued, req, calls, resp >>

NoRequest == [op |-> "none"]
NoResponse == [status |-> 0, error |-> "", message |-> "", body |-> None]
Idle == req.op = "none"

Init ==
  /\ store = << >>
  /\ now = 1
  /\ issued = {}
  /\ nIssued = 0
  /\ req = NoRequest
  /\ calls = << >>
  /\ resp = NoResponse

\* The keys clients ask about: the ones they were issued, and a stray one.
ClientKeys == { u.key : u \in issued } \cup { StrayKey }

\* Time passes.
Tick ==
  /\ Idle
  /\ now < MaxClock
  /\ now' = now + 1
  /\ UNCHANGED << store, issued, nIssued, req, calls, resp >>

\* The response has gone out; the next request can come in.
Reply ==
  /\ ~Idle
  /\ req.op # "deletes"
  /\ req' = NoRequest
  /\ calls' = << >>
  /\ resp' = NoResponse
  /\ UNCHANGED << store, now, issued, nIssued >>

\* A controller method behind validate(schema): the calls made and the
\* response sent, out being what the service method returns when reached.
Handle(valid, out) ==
  /\ calls' = IF valid.ok THEN out.calls ELSE << >>
  /\ resp' = IF valid.ok THEN Respond(out.res, out.res.val) ELSE errorHandler(valid)

\* The clock after a request that reads it at tSign (the signer) and then at
\* tDate (`new Date()`), when the signer is the n-th call of the request.
ClockAfter(valid, out, n, tSign, tDate) ==
  IF valid.ok /\ Len(out.calls) = n
  THEN (IF out.res.ok THEN tDate ELSE tSign)
  ELSE now

\* UploadController.generatePresignedUrl behind its validator, request being
\* what it hands to the service: the response, and the record of the URL
\* issued to the client.
HandleUpload(request, valid, out, tSign, tDate) ==
  /\ Handle(valid, out)
  /\ issued' = IF valid.ok /\ out.res.ok
               THEN issued \cup { [key |-> out.res.val.key,
                                   filename |-> request.filename,
                                   metadata |-> request.metadata,
                                   url |-> out.res.val.uploadUrl] }
               ELSE issued
  /\ nIssued' = IF valid.ok /\ out.res.ok THEN nIssued + 1 ELSE nIssued
  /\ now' = ClockAfter(valid, out, 1, tSign, tDate)

\* POST /upload/presign: optionalAuthenticate, validate(presignUploadSchema),
\* UploadController.generatePresignedUrl, for the tokens, bodies and random
\* id parts given. At most cap URLs are issued.
PresignUpload(tokens, bodies, randoms, cap) ==
  \E token \in tokens, body \in bodies, random \in randoms, ans \in StoreAnswers,
     t2 \in now..MaxClock :
  \E tSign \in t2..MaxClock :
  \E tDate \in tSign..MaxClock :
    /\ Idle
    /\ nIssued < cap
    /\ req' = [op |-> "presign", token |-> token, body |-> body,
               answers |-> << ans >>]
    /\ HandleUpload(WithUserId(body, optionalAuthenticate(token)),
                    validate(presignUploadSchema(body)),
                    fsGeneratePresignedUploadUrl(
                      WithUserId(body, optionalAuthenticate(token)),
                      random, ans, now, t2, tSign, tDate),
                    tSign, tDate)
    /\ UNCHANGED store

\* The client PUTs a body to an upload URL it was issued, before it expires.
\* A URL signed with a ContentLength takes a body of that length only.
ClientPut ==
  \E u \in issued, size \in PutSizes :
    /\ Idle
    /\ now < u.url.expires
    /\ IsSome(u.url.command.ContentLength) => size = Get(u.url.command.ContentLength)
    /\ store' = (u.url.command.Key :>
                   [size |-> size,
                    contentType |-> u.url.command.ContentType,
                    metadata |-> StoredMetadata(u.url.command.headers),
                    lastModified |-> now]) @@ store
    /\ UNCHANGED << now, issued, nIssued, req, calls, resp >>

\* Another writer of the bucket puts an object under the prefix, with a tags
\* header of its own making.
ForeignPut ==
  \E tags \in ForeignTags :
    /\ Idle
    /\ store' = (KeyPrefix \o StrayKey :>
                   [size |-> 1024,
                    contentType |-> "image/jpeg",
                    metadata |-> [n \in MetaNames |->
                                   IF n = "tags" THEN Some(tags) ELSE None],
                    lastModified |-> now]) @@ store
    /\ UNCHANGED << now, issued, nIssued, req, calls, resp >>

\* POST /upload/complete: optionalAuthenticate, validate(uploadCompleteSchema),
\* UploadController.handleUploadComplete.
UploadComplete ==
  \E token \in OptionalTokens, key \in ClientKeys, ans \in StoreAnswers :
    /\ Idle
    /\ req' = [op |-> "complete", token |-> token, key |-> key,
               answers |-> << ans >>]
    /\ Handle(validate(keySchema(key)),
              fsHandleUploadComplete(store, [key |-> key], ans))
    /\ UNCHANGED << store, now, issued, nIssued >>

\* FileController.generatePresignedGetUrl behind its validator.
HandleGet(valid, out, tSign, tDate) ==
  /\ Handle(valid, out)
  /\ now' = ClockAfter(valid, out, 2, tSign, tDate)

\* GET /files/:key/presign: optionalAuthenticate, validate(presignGetSchema),
\* FileController.generatePresignedGetUrl.
PresignGet ==
  \E token \in OptionalTokens, key \in ClientKeys, ansHead \in StoreAnswers,
     ansSign \in StoreAnswers, tSign \in now..MaxClock :
  \E tDate \in tSign..MaxClock :
    /\ Idle
    /\ req' = [op |-> "retrieve", token |-> token, key |-> key,
               answers |-> << ansHead, ansSign >>]
    /\ HandleGet(validate(keySchema(key)),
                 fsGeneratePresignedGetUrl(store, key, ansHead, ansSign, tSign, tDate),
                 tSign, tDate)
    /\ UNCHANGED << store, issued, nIssued >>

\* The query string of GET /files.
RawQuery(page, limit, prefix) ==
  [userId |-> None, tags |-> None, page |-> page, limit |-> limit,
   prefix |-> prefix]

\* GET /files: optionalAuthenticate, validate(listFilesQuerySchema),
\* FileController.listFiles.
ListFiles ==
  \E token \in OptionalTokens, page \in Pages, limit \in Limits,
     prefix \in ListPrefixes, ans \in StoreAnswers :
    /\ Idle
    /\ req' = [op |-> "list", token |-> token,
               query |-> RawQuery(page, limit, prefix), answers |-> << ans >>]
    /\ Handle(validate(listFilesQuerySchema(RawQuery(page, limit, prefix))),
              fsListFiles(store,
                          ListQuery(RawQuery(page, limit, prefix),
                                    optionalAuthenticate(token)),
                          ans))
    /\ UNCHANGED << store, now, issued, nIssued >>

\* FileController.deleteFile behind authenticate and its validator: the
\* response, and the store the service leaves.
HandleDelete(auth, valid, out, key) ==
  /\ calls' = IF auth.ok /\ valid.ok THEN out.calls ELSE << >>
  /\ resp' = IF ~auth.ok THEN errorHandler(auth)
             ELSE IF ~valid.ok THEN errorHandler(valid)
             ELSE Respond(out.res, [success |-> TRUE,
                                    message |-> "File deleted successfully",
                                    key |-> key])
  /\ store' = IF auth.ok /\ valid.ok THEN out.store ELSE store

\* DELETE /files/:key: authenticate, validate(deleteFileSchema),
\* FileController.deleteFile.
DeleteFile ==
  \E token \in Tokens, key \in ClientKeys, ansHead \in StoreAnswers,
     ansDelete \in StoreAnswers :
    /\ Idle
    /\ req' = [op |-> "delete", token |-> token, key |-> key,
               answers |-> << ansHead, ansDelete >>]
    /\ HandleDelete(authenticate(token), validate(keySchema(key)),
                    fsDeleteFile(store, key, ansHead, ansDelete), key)
    /\ UNCHANGED << now, issued, nIssued >>

\* Two DELETE /files/:key requests for the same key, both past authenticate
\* and validate(deleteFileSchema), are in progress at once: each is at its
\* existence check ("head"), at its delete call ("delete") or answered
\* ("done"). existed tells whether the object was there when they came in.
StartDeletes ==
  \E key \in ClientKeys :
    /\ Idle
    /\ authenticate(TokenOf(User1)).ok
    /\ validate(keySchema(key)).ok
    /\ req' = [op |-> "deletes", token |-> TokenOf(User1), key |-> key,
               existed |-> KeyPrefix \o key \in DOMAIN store,
               pc |-> << "head", "head" >>,
               head |-> << Ok(None), Ok(None) >>,
               resps |-> << NoResponse, NoResponse >>,
               present |-> << FALSE, FALSE >>,
               answers |-> << >>]
    /\ UNCHANGED << store, now, issued, nIssued, calls, resp >>

\* FileService.deleteFile, lines 152-155, for request p: metadata is what
\* its getFileMetadata call returned. The request goes on to its delete
\* call, or is answered with the error thrown.
AfterHead(p, metadata) ==
  /\ calls' = calls \o metadata.calls
  /\ req' = IF metadata.res.ok /\ metadata.res.val.exists
            THEN [req EXCEPT !.pc[p] = "delete", !.head[p] = metadata.res]
            ELSE [req EXCEPT !.pc[p] = "done",
                             !.resps[p] = errorHandler(
                                IfExists(metadata, metadata, store).res)]
  /\ UNCHANGED << store, now, issued, nIssued, resp >>

\* Request p of the two makes its existence check.
DeleteHead ==
  \E p \in 1..2, ans \in StoreAnswers :
    /\ req.op = "deletes"
    /\ req.pc[p] = "head"
    /\ AfterHead(p, s3GetFileMetadata(store, req.key, ans))

\* FileService.deleteFile, line 157, and FileController.deleteFile for
\* request p: deleted is what its S3Service.deleteFile call returned.
AfterDelete(p, deleted) ==
  /\ calls' = calls \o deleted.calls
  /\ store' = deleted.store
  /\ req' = [req EXCEPT !.pc[p] = "done",
                        !.present[p] = KeyPrefix \o req.key \in DOMAIN store,
                        !.resps[p] = Respond(deleted.res,
                                             [success |-> TRUE,
                                              message |-> "File deleted successfully",
                                              key |-> req.key])]
  /\ UNCHANGED << now, issued, nIssued, resp >>

\* Request p of the two makes its delete call.
DeleteCallStep ==
  \E p \in 1..2, ans \in StoreAnswers :
    /\ req.op = "deletes"
    /\ req.pc[p] = "delete"
    /\ AfterDelete(p, s3DeleteFile(store, req.key, ans))

\* Both responses have gone out.
RepliedBoth ==
  /\ req.op = "deletes"
  /\ req.pc = << "done", "done" >>
  /\ req' = NoRequest
  /\ calls' = << >>
  /\ resp' = NoResponse
  /\ UNCHANGED << store, now, issued, nIssued >>

\* The service with its clients: uploads are issued, PUT, completed,
\* retrieved, listed and deleted. Math.random() repeats itself here, which
\* it may; the keys still differ by their timestamps and filenames.
IssueUpload == PresignUpload({ NoToken }, LifecycleBodies, { <<"k">> }, MaxIssued)

Next ==
  \/ Tick
  \/ Reply
  \/ IssueUpload
  \/ ClientPut
  \/ UploadComplete
  \/ PresignGet
  \/ ListFiles
  \/ DeleteFile

Spec == Init /\ [][Next]_vars

\* The upload endpoint alone, under every kind of request body.
RequestUpload == PresignUpload(Tokens, UploadBodies, Randoms, 1)

NextUpload ==
  \/ Tick
  \/ Reply
  \/ RequestUpload

SpecUpload == Init /\ [][NextUpload]_vars

\* The upload endpoint under filenames with characters a key must not have.
RequestKey == PresignUpload({ NoToken }, KeyBodies, Randoms, 1)

NextKeys ==
  \/ Tick
  \/ Reply
  \/ RequestKey

SpecKeys == Init /\ [][NextKeys]_vars

\* The metadata codec end to end: an upload URL is issued for a request
\* that carries metadata, the client PUTs with the headers signed, and the
\* existence check of Complete decodes what the store kept.
IssueWithMetadata == PresignUpload(OptionalTokens, CodecBodies, Randoms, 1)

NextCodec ==
  \/ Reply
  \/ IssueWithMetadata
  \/ ClientPut
  \/ UploadComplete

SpecCodec == Init /\ [][NextCodec]_vars

\* The service on a bucket it shares with another writer: objects it did not
\* sign the headers of are completed, retrieved and deleted.
NextShared ==
  \/ Tick
  \/ Reply
  \/ ForeignPut
  \/ UploadComplete
  \/ PresignGet
  \/ DeleteFile

SpecShared == Init /\ [][NextShared]_vars

\* Two Deletes of one key at once: an upload is issued, the client PUTs,
\* and two Delete requests for the key interleave at their store calls.
IssueOne == PresignUpload({ NoToken }, LifecycleBodies, { <<"k">> }, 1)

NextRace ==
  \/ IssueOne
  \/ ClientPut
  \/ StartDeletes
  \/ DeleteHead
  \/ DeleteCallStep
  \/ RepliedBoth
  \/ Reply

SpecRace == Init /\ [][NextRace]_vars

\* -------------------------------------------------------------- properties

\* The request being answered is an upload request the schema accepts.
ValidUpload == req.op = "presign" /\ presignUploadSchema(req.body)

\* The size of the upload request being answered is over the ceiling.
Oversize == IsSome(req.body.size) /\ Get(req.body.size) > maxFileSizeBytes

\* The response is the 400 of a ValidationError.
Rejected400 == resp.status = 400 /\ resp.error = "ValidationError"

\* C1: an upload request whose contentType is not in the allow-list is
\* answered 400 ValidationError and no call reaches the store or the signer;
\* when the request is one the schema accepts, the message is the allow-list
\* check's "not allowed".
C1_DisallowedTypeRejected ==
  (req.op = "presign" /\ req.body.contentType \notin allAllowedTypes) =>
    /\ Rejected400
    /\ calls = << >>
    /\ presignUploadSchema(req.body) => resp.message = MsgNotAllowed

\* A schema-valid request of a type outside the allow-list was turned away.
C1_Witness ==
  /\ ValidUpload
  /\ req.body.contentType = "application/x-msdownload"
  /\ resp.status = 400
  /\ resp.message = MsgNotAllowed

\* C2: an upload request of an allowed type is answered 400 ValidationError
\* "exceeds maximum" exactly when its size is present and over the ceiling,
\* and then no signing call was made; with a size at the ceiling or absent
\* the request goes on to the signer.
C2_SizeCeiling ==
  (ValidUpload /\ req.body.contentType \in allAllowedTypes) =>
    /\ (Rejected400 /\ resp.message = MsgExceedsMaximum) <=> Oversize
    /\ Oversize => calls = << >>
    /\ ~Oversize => Len(calls) = 1 /\ calls[1].api = "getSignedUrl"

\* A request of an allowed type with a size exactly at the ceiling was signed.
C2_Witness ==
  /\ ValidUpload
  /\ req.body.size = Some(maxFileSizeBytes)
  /\ resp.status = 200
  /\ Len(calls) = 1

\* C3: a schema-valid upload request of an allowed type, with a size absent
\* or within the ceiling, that the signer serves is answered 200 after
\* exactly one signing call, a PUT for the returned key under the prefix; the
\* response carries uploadMethod "PUT", the URL the signer made for that
\* command, the expiry computed on the signer's return, and a non-empty key
\* and fileId, the key being timestamp, fileId and sanitized name joined by
\* dashes.
C3_UploadIssued ==
  (/\ ValidUpload
   /\ req.body.contentType \in allAllowedTypes
   /\ ~Oversize
   /\ req.answers[1] = "ok") =>
    /\ resp.status = 200
    /\ Len(calls) = 1
    /\ calls[1].api = "getSignedUrl" /\ calls[1].method = "PUT"
    /\ LET body == Get(resp.body)
       IN /\ body.uploadMethod = "PUT"
          /\ body.uploadUrl.method = "PUT"
          /\ body.uploadUrl.command = calls[1].command
          /\ body.uploadUrl.expires <= now + uploadExpirySeconds * 1000
          /\ body.expiresAt = toISOString(now + uploadExpirySeconds * 1000)
          /\ body.key # << >> /\ body.fileId # << >>
          /\ calls[1].key = KeyPrefix \o body.key
          /\ \E t \in 1..now :
               body.key = NumToStr(t) \o <<"-">> \o body.fileId \o <<"-">>
                            \o Sanitize(req.body.filename)

\* An upload URL was issued for a request that carries metadata and no size.
C3_Witness ==
  /\ ValidUpload
  /\ req.body.size = None
  /\ IsSome(req.body.metadata)
  /\ resp.status = 200
  /\ Len(calls) = 1

\* The HeadObject call for key k, and the signing and deleting calls for it.
HeadCall(k) == [api |-> "HeadObject", key |-> KeyPrefix \o k]
DeleteCall(k) == [api |-> "DeleteObject", key |-> KeyPrefix \o k]
GetSignCall(k) ==
  [api |-> "getSignedUrl", method |-> "GET", key |-> KeyPrefix \o k,
   command |-> [Key |-> KeyPrefix \o k], expiresIn |-> getExpirySeconds]

\* The step is a Complete, Retrieve or Delete request that gets as far as the
\* service and whose existence check the store answers.
ExistenceChecked ==
  /\ Idle
  /\ req'.op \in { "complete", "retrieve", "delete" }
  /\ req'.op = "delete" => req'.token.kind = "valid"
  /\ req'.answers[1] = "ok"

\* C4: a Complete, Retrieve or Delete on key k whose existence check finds no
\* object is answered 404 NotFoundError with the HeadObject call as its only
\* call, and the store is left as it was; when the check finds the object,
\* Complete answers {success: true, key: k}, Retrieve goes on to sign a GET
\* for k and answers with that URL if the signer serves it, and Delete goes
\* on to the store's delete of k.
C4_ExistenceGate ==
  [][ExistenceChecked =>
       LET k == req'.key
       IN IF KeyPrefix \o k \notin DOMAIN store
          THEN /\ resp'.status = 404 /\ resp'.error = "NotFoundError"
               /\ calls' = << HeadCall(k) >>
               /\ store' = store
          ELSE CASE req'.op = "complete" ->
                      /\ resp'.status = 200
                      /\ Get(resp'.body).success /\ Get(resp'.body).key = k
                 [] req'.op = "retrieve" ->
                      /\ calls' = << HeadCall(k), GetSignCall(k) >>
                      /\ req'.answers[2] = "ok" =>
                           /\ resp'.status = 200
                           /\ Get(resp'.body).url.method = "GET"
                           /\ Get(resp'.body).url.command.Key = KeyPrefix \o k
                 [] req'.op = "delete" ->
                      /\ calls' = << HeadCall(k), DeleteCall(k) >>
                      /\ req'.answers[2] = "ok" =>
                           /\ resp'.status = 200
                           /\ KeyPrefix \o k \notin DOMAIN store'
     ]_vars

\* A Delete by an authenticated client for a key with no object was answered
\* 404 after the existence check alone, while the store holds another object.
C4_Witness ==
  /\ req.op = "delete"
  /\ req.token.kind = "valid"
  /\ resp.status = 404
  /\ calls = << HeadCall(req.key) >>
  /\ store # << >>

\* C5: the keys of the upload URLs issued are pairwise distinct: as many
\* different keys as URLs issued, whatever the filenames, the clock and the
\* random components were.
C5_KeysDistinct == Cardinality({ u.key : u \in issued }) = nIssued

\* The metadata the existence check decodes for key k.
DecodedMetadata(k) == s3GetFileMetadata(store, k, "ok").res.val.metadata

\* C6: when Complete finds the object of an issued upload URL, the metadata
\* its existence check decodes is the metadata the issuer encoded for that
\* URL, absent fields staying unset.
C6_RoundTrip ==
  (req.op = "complete" /\ resp.status = 200) =>
    \A u \in issued :
      u.key = req.key =>
        DecodedMetadata(req.key) = Some(WithOriginalFilename(u.metadata, u.filename))

\* The request being answered is a List request that was answered 200.
Listed == req.op = "list" /\ resp.status = 200

\* C7: for every file a List response reports under a key that an upload
\* request for filename f was issued, the filename reported is the
\* sanitized form of f.
C7_FilenameRecovered ==
  Listed =>
    \A i \in 1..Len(Get(resp.body).files) : \A u \in issued :
      u.key = Get(resp.body).files[i].key =>
        Get(resp.body).files[i].filename = Sanitize(u.filename)

\* C8: a List request the store serves is answered 200 whatever page and
\* limit it asks for, with limit in 1..100 and page >= 1 in the pagination
\* block, 20 and 1 when they are absent, and the limit is the MaxKeys the
\* store was asked for.
C8_ListClamped ==
  (req.op = "list" /\ req.answers[1] = "ok") =>
    /\ resp.status = 200
    /\ LET pagination == Get(resp.body).pagination
       IN /\ pagination.limit \in 1..100
          /\ pagination.page >= 1
          /\ req.query.limit = None => pagination.limit = 20
          /\ req.query.page = None => pagination.page = 1
          /\ Len(calls) = 1 /\ calls[1].maxKeys = pagination.limit

\* The keys a List response reports, in order.
ListedKeys == [i \in 1..Len(Get(resp.body).files) |-> Get(resp.body).files[i].key]

\* Positions from..to of sequence all, as far as it reaches.
Window(all, from, to) ==
  [i \in 1..(IF to < Len(all) THEN (IF to < from THEN 0 ELSE to - from + 1)
             ELSE (IF Len(all) < from THEN 0 ELSE Len(all) - from + 1)) |->
     all[from + i - 1]]

\* C9: the List response for page p with limit l reports the objects at
\* positions (p-1)*l+1 .. p*l of the listing under the prefix asked for.
C9_PageWindow ==
  Listed =>
    LET pagination == Get(resp.body).pagination
        all == Listing(store, calls[1].key)
        window == Window(all, (pagination.page - 1) * pagination.limit + 1,
                         pagination.page * pagination.limit)
    IN ListedKeys = [i \in 1..Len(window) |-> ReplaceFirst(window[i], KeyPrefix, << >>)]

\* C10: in a List response, total is the number of file records in it,
\* hasMore is the truncation flag of the store's answer to the call made,
\* and there are no more records than the limit; the response to a List that
\* asks for no page and no limit and finds no object is
\* {files: [], pagination: {page: 1, limit: 20, total: 0, hasMore: false}}.
C10_PaginationBlock ==
  Listed =>
    LET body == Get(resp.body)
        response == ListObjectsV2(store, calls[1].key, calls[1].maxKeys)
    IN /\ body.pagination.total = Len(body.files)
       /\ body.pagination.hasMore = response.IsTruncated
       /\ Len(body.files) <= body.pagination.limit
       /\ (/\ req.query.page = None /\ req.query.limit = None
           /\ response.Contents = << >>) =>
            body = [files |-> << >>,
                    pagination |-> [page |-> 1, limit |-> 20, total |-> 0,
                                    hasMore |-> FALSE]]

\* A List with limit 1 was answered with one record of a store that holds
\* two objects, and says more follow.
C10_Witness ==
  /\ Listed
  /\ Cardinality(DOMAIN store) = 2
  /\ Len(Get(resp.body).files) = 1
  /\ Get(resp.body).pagination.hasMore

\* C11: a Delete request without a valid bearer token is answered 401 with
\* an error name, and neither HeadObject nor DeleteObject was called for it;
\* a DeleteObject call is only ever the second call of a Delete request with
\* a valid token, after the HeadObject call for the same key.
C11_DeleteNeedsAuth ==
  /\ (req.op = "delete" /\ req.token.kind # "valid") =>
       /\ resp.status = 401
       /\ resp.error = "UnauthorizedError"
       /\ calls = << >>
  /\ \A i \in 1..Len(calls) :
       calls[i].api = "DeleteObject" =>
         /\ req.op = "delete"
         /\ req.token.kind = "valid"
         /\ i = 2
         /\ calls[1] = HeadCall(req.key)
         /\ calls[2] = DeleteCall(req.key)

\* A Delete with a token jwt.verify rejects, for a key whose object is in
\* the store, was answered 401 without a call.
C11_Witness ==
  /\ req.op = "delete"
  /\ req.token.kind = "bad"
  /\ KeyPrefix \o req.key \in DOMAIN store
  /\ resp.status = 401
  /\ calls = << >>

\* C12: every file record of the response to a List request that carries a
\* valid token and no userId belongs to an object whose stored user-id
\* metadata is the id of the token's user.
C12_ListFilteredByUser ==
  (Listed /\ req.token.kind = "valid" /\ req.query.userId = None) =>
    \A i \in 1..Len(Get(resp.body).files) :
      store[KeyPrefix \o Get(resp.body).files[i].key].metadata["user-id"]
        = Some(req.token.userId)

BodyUserId ==
  IF IsSome(req.body.metadata) /\ Truthy(Get(req.body.metadata).userId)
  THEN Get(req.body.metadata).userId
  ELSE None

C14_StoredSizeBounded ==
  \A k \in DOMAIN store : store[k].size <= maxFileSizeBytes

\* The step is a Complete, Retrieve or Delete request that reaches its
\* existence check.
ChecksExistence ==
  /\ Idle
  /\ req'.op \in { "complete", "retrieve", "delete" }
  /\ Len(calls') >= 1

\* C15: the existence check of a Complete, Retrieve or Delete on key k has
\* three outcomes. When HeadObject fails for another reason than "not found",
\* the request is answered with an S3Error (500), never with 404, and makes
\* no call after the check; when it answers "not found", the request is
\* answered 404 NotFoundError, not with an S3Error; when it answers with the
\* object, the request is not answered 404 and goes on: Complete succeeds,
\* Retrieve signs, Delete deletes.
C15_ThreeOutcomes ==
  [][ChecksExistence =>
       LET k == req'.key
       IN /\ calls'[1] = HeadCall(k)
          /\ CASE req'.answers[1] # "ok" ->
                    /\ resp'.error = "S3Error" /\ resp'.status = 500
                    /\ calls' = << HeadCall(k) >>
                    /\ store' = store
               [] req'.answers[1] = "ok" /\ KeyPrefix \o k \notin DOMAIN store ->
                    /\ resp'.error = "NotFoundError" /\ resp'.status = 404
                    /\ calls' = << HeadCall(k) >>
                    /\ store' = store
               [] req'.answers[1] = "ok" /\ KeyPrefix \o k \in DOMAIN store ->
                    /\ resp'.status # 404
                    /\ req'.op = "complete" => resp'.status = 200
                    /\ req'.op = "retrieve" =>
                         calls' = << HeadCall(k), GetSignCall(k) >>
                    /\ req'.op = "delete" =>
                         calls' = << HeadCall(k), DeleteCall(k) >>
     ]_vars

\* A Retrieve of an object that is in the store, whose HeadObject failed, was
\* answered with an S3Error after the one call.
C15_Witness ==
  /\ req.op = "retrieve"
  /\ req.answers[1] = "error"
  /\ KeyPrefix \o req.key \in DOMAIN store
  /\ resp.error = "S3Error"
  /\ calls = << HeadCall(req.key) >>

\* The request made the n-th call of its service method, and that call, to
\* the store client or the signer, failed.
CallFailed(op, n) ==
  /\ req.op = op
  /\ Len(calls) = n
  /\ req.answers[n] = "error"

\* C16: a failure of the signer in issue-upload or Retrieve, of DeleteObject
\* in Delete or of ListObjectsV2 in List is answered as an S3Error (500) and
\* as nothing else, and the response of a failed issue-upload or Retrieve
\* has no body, so neither url nor expiresAt.
C16_FailuresWrapped ==
  (\/ CallFailed("presign", 1)
   \/ CallFailed("retrieve", 2)
   \/ CallFailed("delete", 2)
   \/ CallFailed("list", 1)) =>
    /\ resp.error = "S3Error"
    /\ resp.status = 500
    /\ resp.body = None

\* A Retrieve of an existing object whose signer failed was answered with an
\* S3Error and no body.
C16_Witness ==
  /\ CallFailed("retrieve", 2)
  /\ calls[2] = GetSignCall(req.key)
  /\ resp.error = "S3Error"
  /\ resp.body = None

\* C17: an upload URL is signed with expiresIn = uploadExpirySeconds and a
\* GET URL with expiresIn = getExpirySeconds, two settings of different
\* values here, and the expiresAt returned with either is the time the
\* service reads when it hands the URL out plus the window of its own kind.
C17_OwnExpiry ==
  /\ (req.op = "presign" /\ resp.status = 200) =>
       /\ calls[1].method = "PUT"
       /\ calls[1].expiresIn = uploadExpirySeconds
       /\ Get(resp.body).expiresAt = toISOString(now + uploadExpirySeconds * 1000)
  /\ (req.op = "retrieve" /\ resp.status = 200) =>
       /\ calls[2].method = "GET"
       /\ calls[2].expiresIn = getExpirySeconds
       /\ Get(resp.body).expiresAt = toISOString(now + getExpirySeconds * 1000)
  /\ uploadExpirySeconds # getExpirySeconds

\* A GET URL was issued after the clock moved: its expiresAt is an hour
\* after the time of issue, not a quarter of an hour.
C17_Witness ==
  /\ req.op = "retrieve"
  /\ resp.status = 200
  /\ now = 2
  /\ Get(resp.body).expiresAt = toISOString(3600002)
  /\ Get(resp.body).url.method = "GET"

\* C19: a Complete for an issued key, whose HeadObject the store answers,
\* reports NotFoundError (404) as long as the client's PUT of that key has
\* not landed and success once it has; every Complete makes exactly one
\* call, the HeadObject of its key, and answers from what that call found.
C19_CompleteDecoupled ==
  req.op = "complete" =>
    /\ calls = << HeadCall(req.key) >>
    /\ (req.answers[1] = "ok" /\ req.key \in { u.key : u \in issued }) =>
         IF KeyPrefix \o req.key \in DOMAIN store
         THEN /\ resp.status = 200
              /\ Get(resp.body).success
              /\ Get(resp.body).key = req.key
         ELSE /\ resp.status = 404
              /\ resp.error = "NotFoundError"

\* A Complete for an issued key came before the client's PUT of it, while
\* the PUT of another issued key had landed, and was answered 404.
C19_Witness ==
  /\ req.op = "complete"
  /\ req.answers[1] = "ok"
  /\ req.key \in { u.key : u \in issued }
  /\ KeyPrefix \o req.key \notin DOMAIN store
  /\ store # << >>
  /\ resp.status = 404
  /\ calls = << HeadCall(req.key) >>

\* The object at key k has a tags header that is not valid JSON.
MalformedTags(k) ==
  /\ KeyPrefix \o k \in DOMAIN store
  /\ Truthy(store[KeyPrefix \o k].metadata["tags"])
  /\ ~JsonParse(Get(store[KeyPrefix \o k].metadata["tags"])).ok

\* C20: a Complete, Retrieve or Delete whose HeadObject the store answers
\* with an object whose tags header is not valid JSON is answered with an
\* S3Error (500) and no body, and makes no call after the HeadObject: no
\* signing, no delete.
C20_MalformedTagsFail ==
  (/\ req.op \in { "complete", "retrieve", "delete" }
   /\ Len(calls) >= 1
   /\ req.answers[1] = "ok"
   /\ MalformedTags(req.key)) =>
    /\ resp.error = "S3Error"
    /\ resp.status = 500
    /\ resp.body = None
    /\ calls = << HeadCall(req.key) >>

\* A Delete by an authenticated client of an object whose tags header is
\* '["a' was answered with an S3Error, and the object is still there.
C20_Witness ==
  /\ req.op = "delete"
  /\ req.token.kind = "valid"
  /\ req.answers = << "ok", "ok" >>
  /\ MalformedTags(req.key)
  /\ Get(store[KeyPrefix \o req.key].metadata["tags"]) = << "[", "\"", "a" >>
  /\ resp.error = "S3Error"
  /\ calls = << HeadCall(req.key) >>

\* The key of the upload URL just issued, and the filename it was issued for.
IssuedKey == Get(resp.body).key
IssuedFor == req.body.filename

\* C21: the key issued for a filename has characters of [a-zA-Z0-9._-] only,
\* so no '/' and no '\'; it ends with '-' and as many characters as the
\* filename has, each the filename's own character when that is in the set
\* and one '_' when it is not.
C21_KeyCharacters ==
  (req.op = "presign" /\ resp.status = 200) =>
    /\ \A i \in 1..Len(IssuedKey) : IssuedKey[i] \in SafeChars
    /\ \A i \in 1..Len(IssuedKey) : IssuedKey[i] \notin {"/", "\\"}
    /\ Len(IssuedKey) > Len(IssuedFor)
    /\ IssuedKey[Len(IssuedKey) - Len(IssuedFor)] = "-"
    /\ \A i \in 1..Len(IssuedFor) :
         IssuedKey[Len(IssuedKey) - Len(IssuedFor) + i] =
           (IF IssuedFor[i] \in SafeChars THEN IssuedFor[i] ELSE "_")

\* A key was issued for the filename "../x": it ends with ".._x".
C21_Witness ==
  /\ req.op = "presign"
  /\ resp.status = 200
  /\ IssuedFor = <<".",".","/","x">>
  /\ SubSeq(IssuedKey, Len(IssuedKey) - 3, Len(IssuedKey)) = <<".",".","_","x">>

\* The store st without the object at key k.
Without(st, k) == [x \in DOMAIN st \ { k } |-> st[x]]

\* C22: a step that handles an issue-upload, Retrieve, Complete or List
\* request, failed or not, leaves the store as it was; a step that handles a
\* Delete of key k leaves every object but the one at prefix+k as it was, and
\* when it answers 200 the store is the one before without that object.
C22_OnlyDeleteChangesStore ==
  [][/\ req'.op \in { "presign", "retrieve", "complete", "list" } => store' = store
     /\ (Idle /\ req'.op = "delete") =>
          /\ \A x \in DOMAIN store \ { KeyPrefix \o req'.key } :
               x \in DOMAIN store' /\ store'[x] = store[x]
          /\ DOMAIN store' \subseteq DOMAIN store
          /\ resp'.status = 200 =>
               /\ KeyPrefix \o req'.key \in DOMAIN store
               /\ store' = Without(store, KeyPrefix \o req'.key)
          /\ resp'.status # 200 => store' = store
    ]_vars

\* A Delete succeeded and removed its object while another object stayed.
C22_Witness ==
  /\ req.op = "delete"
  /\ resp.status = 200
  /\ KeyPrefix \o req.key \notin DOMAIN store
  /\ store # << >>
  /\ calls = << HeadCall(req.key), DeleteCall(req.key) >>

\* The key or prefix the request in progress means its call to carry.
CallTarget ==
  CASE req.op \in { "complete", "retrieve", "delete" } -> KeyPrefix \o req.key
    [] req.op = "list" ->
         KeyPrefix \o (IF IsSome(req.query.prefix) THEN Get(req.query.prefix) ELSE << >>)
    [] req.op = "presign" ->
         IF resp.status = 200 THEN KeyPrefix \o Get(resp.body).key ELSE calls[1].key

\* C23: every call of a request carries a key (a prefix, for ListObjectsV2)
\* that begins with the configured prefix and is the prefix followed by what
\* the client sent or was issued; and every key a List reports is the key of
\* an object in the store with the prefix taken off, so that the HeadObject
\* of a Retrieve or Delete of that key is for that very object.
C23_NamespaceIsolation ==
  /\ \A i \in 1..Len(calls) :
       /\ StartsWith(calls[i].key, KeyPrefix)
       /\ calls[i].key = CallTarget
  /\ Listed =>
       \A i \in 1..Len(Get(resp.body).files) :
         /\ KeyPrefix \o Get(resp.body).files[i].key \in DOMAIN store
         /\ HeadCall(Get(resp.body).files[i].key).key \in DOMAIN store
         /\ store[KeyPrefix \o Get(resp.body).files[i].key].size =
              Get(resp.body).files[i].size

\* A List under a prefix of the client's reported an object.
C23_Witness ==
  /\ Listed
  /\ IsSome(req.query.prefix)
  /\ calls[1].key = KeyPrefix \o Get(req.query.prefix)
  /\ Len(Get(resp.body).files) >= 1

\* Two Deletes of one key, which held an object when they came in, have both
\* been answered, and the store served every call they made.
BothDeletesAnswered ==
  /\ req.op = "deletes"
  /\ req.pc = << "done", "done" >>
  /\ req.existed
  /\ \A p \in 1..2 : req.resps[p].status \in { 200, 404 }

NoLaterThan(expiresAt, e) ==
  \E t \in 0..MaxClock, ttl \in { uploadExpirySeconds, getExpirySeconds } :
    /\ toISOString(t + ttl * 1000) = expiresAt
    /\ t + ttl * 1000 <= e

\* C25: the expiresAt returned with an upload URL or a GET URL is no later
\* than the time from which the store refuses that URL, which is the time
\* it was signed at plus its window.
C25_ExpiresAtNotLate ==
  /\ (req.op = "presign" /\ resp.status = 200) =>
       NoLaterThan(Get(resp.body).expiresAt, Get(resp.body).uploadUrl.expires)
  /\ (req.op = "retrieve" /\ resp.status = 200) =>
       NoLaterThan(Get(resp.body).expiresAt, Get(resp.body).url.expires)

\* The step handles a Complete, Retrieve or Delete of an issued key, and the
\* store and the signer serve every call it makes.
LifecycleStep ==
  /\ Idle
  /\ req'.op \in { "complete", "retrieve", "delete" }
  /\ req'.op = "delete" => req'.token.kind = "valid"
  /\ req'.key \in { u.key : u \in issued }
  /\ \A i \in 1..Len(req'.answers) : req'.answers[i] = "ok"

\* The keys of the objects under the prefix a List asked for.
MatchingKeys == { x \in DOMAIN store : StartsWith(x, calls[1].key) }

\* C26: the object of an issued key k comes into the store by a client's
\* PUT of k and leaves it by a Delete of k answered 200, and by no other
\* step; a Complete, Retrieve or Delete of k is answered 404 NotFoundError
\* while the object is not in the store and 200 while it is; and a List
\* whose limit is at least the number of objects under its prefix reports
\* exactly those objects.
C26_Lifecycle ==
  [][/\ \A u \in issued :
          /\ (KeyPrefix \o u.key \notin DOMAIN store /\ KeyPrefix \o u.key \in DOMAIN store')
               => (Idle /\ req' = req)
          /\ (KeyPrefix \o u.key \in DOMAIN store /\ KeyPrefix \o u.key \notin DOMAIN store')
               => (req'.op = "delete" /\ req'.key = u.key /\ resp'.status = 200)
     /\ LifecycleStep =>
          IF KeyPrefix \o req'.key \in DOMAIN store
          THEN resp'.status = 200
          ELSE resp'.status = 404 /\ resp'.error = "NotFoundError"
    ]_vars
  /\ [](Listed /\ Get(resp.body).pagination.limit >= Cardinality(MatchingKeys)
          => /\ { KeyPrefix \o ListedKeys[i] : i \in 1..Len(ListedKeys) } = MatchingKeys
             /\ Len(ListedKeys) = Cardinality(MatchingKeys))

\* Two uploads were issued, the object of one is in the store, and a List
\* with the default limit reported exactly that one.
C26_Witness ==
  /\ Listed
  /\ req.query.limit = None
  /\ nIssued = 2
  /\ Cardinality(DOMAIN store) = 1
  /\ Len(ListedKeys) = 1
  /\ \E u \in issued : ListedKeys[1] = u.key

====
